---- MODULE Spec2Model ----
(***************************************************************************)
(* Model of switchbot_api.SwitchBotAPI: the request pipeline (_request:    *)
(* session ownership, header signing, HTTP dispatch, response              *)
(* classification), the operations built on it (list_devices, get_status,  *)
(* send_command) and shutdown (close, __aexit__).                          *)
(*                                                                         *)
(* Environment (aiohttp, uuid, time) as used by the code:                  *)
(*  - session.request() on a closed ClientSession raises RuntimeError      *)
(*    before anything is sent; it serialises the json argument with       *)
(*    json.dumps, which raises TypeError on an Enum member that is not a  *)
(*    str; otherwise it suspends and either raises a transport fault or   *)
(*    yields a response with a status;                                     *)
(*  - response.json() suspends and yields the parsed body, or raises when  *)
(*    the body is not JSON;                                                *)
(*  - ClientSession.close() marks the session closed (idempotent);         *)
(*  - uuid.uuid4() yields a value not issued before (collisions of random  *)
(*    128-bit identifiers are not modelled); time.time() may yield the     *)
(*    same millisecond twice.                                              *)
(***************************************************************************)
EXTENDS Integers, Sequences, FiniteSets, TLC

VARIABLES
    session,        \* self.session: NoSession or a session id
    close_session,  \* self._close_session
    nCreated,       \* number of ClientSession() objects the client constructed
    closed,         \* set of session ids whose ClientSession is closed
    closeInv,       \* session id -> number of session.close() invocations by the client
    nClose,         \* number of close() / __aexit__ calls made on the client
    tasks,          \* k -> position of the k-th operation called on the client
    calls,          \* log of the calls to session.request(), in order: the session the
                    \* call was made on and whether it was open, the method, path,
                    \* JSON body and header set passed, whether the call went out
    last            \* what the operation that ended last did and gave its caller

vars == <<session, close_session, nCreated, closed, closeInv, nClose, tasks, calls, last>>

-----------------------------------------------------------------------------
(* Bounds *)
MaxCalls == 2       \* operations called in one behaviour (each runs as its own task)
MaxCloses == 2      \* close() / __aexit__ calls in one behaviour

TaskIds == 1..MaxCalls

-----------------------------------------------------------------------------
(* Values *)
NoSession == 0
SuppliedSession == 1
SessionIds == 1..(MaxCalls + 2)

Token == "token"
Secret == "secret"

NoneCode == 0 - 1   \* body.get("statusCode") when the key is absent: None

\* The command argument of send_command: a str, or a member of an
\* enumeration.  module is the module that defines the member's class, base
\* the Commands class that class derives from ("none" for a str).
Str(value) == [cls |-> "str", module |-> "none", base |-> "none", value |-> value]
Member(module, cls, value) ==
    [cls |-> cls, module |-> module, base |-> module, value |-> value]
NoCommand == Str("")

\* The arguments of an operation.
NoArgs == [device_id |-> "", command |-> NoCommand, command_type |-> "", parameters |-> ""]
SendArgs(device_id, command, command_type, parameters) ==
    [device_id |-> device_id, command |-> command,
     command_type |-> command_type, parameters |-> parameters]

\* A call of a public operation: its name and arguments.
ListDevices == [name |-> "list_devices", args |-> NoArgs]
GetStatus == [name |-> "get_status", args |-> [NoArgs EXCEPT !.device_id = "abc"]]
SendCommand(args) == [name |-> "send_command", args |-> args]

Ops == {ListDevices, GetStatus}

\* Members of the command enumerations: those of switchbot_api/__init__.py
\* and those of switchbot_api/commands.py, which derive from the Commands
\* class of their own module.
InitCommands == {Member("switchbot_api", "CommonCommands", "turnOn"),
                 Member("switchbot_api", "TVCommands", "SetChannel")}
CatalogCommands == {Member("switchbot_api.commands", "CommonCommands", "toggle"),
                    Member("switchbot_api.commands", "CurtainCommands", "setPosition")}

\* Calls of send_command: strings and members, default and given
\* command_type and parameters.
SendCommands ==
    {SendCommand(SendArgs("D1", Str("turnOn"), "command", "default")),
     SendCommand(SendArgs("D1", Str("button"), "customize", "default"))}
    \cup {SendCommand(SendArgs("D1", c, "command", "default")) : c \in InitCommands}
    \cup {SendCommand(SendArgs("D1", c, "command", "0,ff,80")) : c \in CatalogCommands}

\* Exceptions session.request() can raise while the call is in flight.
\* ClientConnectorError and ClientResponseError are subclasses of ClientError.
TransportFaults == {"ClientError", "ClientConnectorError", "ClientResponseError",
                    "gaierror", "TimeoutError"}

HttpStatuses == {200, 201, 400, 403, 500}
EnvelopeCodes == {100, 161, 171, 190}

\* Entries of deviceList / infraredRemoteList.
Entry(id, type) == [deviceId |-> id, type |-> type]

\* The envelope's "body" values.
NoPayload == [hasDeviceList |-> FALSE, deviceList |-> <<>>,
              hasRemoteList |-> FALSE, infraredRemoteList |-> <<>>, tag |-> "none"]
StatusPayload == [hasDeviceList |-> FALSE, deviceList |-> <<>>,
                  hasRemoteList |-> FALSE, infraredRemoteList |-> <<>>, tag |-> "status"]
DevicesPayload == [hasDeviceList |-> TRUE, deviceList |-> <<Entry("A1", "Color Bulb")>>,
                   hasRemoteList |-> TRUE,
                   infraredRemoteList |-> <<Entry("R1", "Others"), Entry("R2", "TV")>>,
                   tag |-> "devices"]
Payloads == {StatusPayload, DevicesPayload}

\* Device-list payloads: empty lists, a device whose type is "Others",
\* remotes of type "Others" at the head, in the middle and at the end.
DeviceList(devices, remotes) ==
    [hasDeviceList |-> TRUE, deviceList |-> devices,
     hasRemoteList |-> TRUE, infraredRemoteList |-> remotes, tag |-> "devices"]
DevicePayloads ==
    {DevicesPayload,
     DeviceList(<<>>, <<>>),
     DeviceList(<<Entry("A2", "Others"), Entry("A1", "Bot")>>,
                <<Entry("R1", "Others"), Entry("R2", "Others")>>),
     DeviceList(<<Entry("A1", "Bot"), Entry("A2", "Others"), Entry("A3", "Hub 2")>>,
                <<Entry("R1", "TV"), Entry("R2", "Others"), Entry("R3", "Light"),
                  Entry("R4", "Others")>>)}

\* Response bodies: text that is not JSON, JSON that is not an object, and
\* JSON objects with or without the keys "statusCode" and "body".
NotJsonBody == [json |-> FALSE, object |-> FALSE, hasStatusCode |-> FALSE,
                statusCode |-> NoneCode, hasBody |-> FALSE, body |-> NoPayload]
ArrayBody == [json |-> TRUE, object |-> FALSE, hasStatusCode |-> FALSE,
              statusCode |-> NoneCode, hasBody |-> FALSE, body |-> NoPayload]
Envelope(code, payload) ==
    [json |-> TRUE, object |-> TRUE, hasStatusCode |-> TRUE, statusCode |-> code,
     hasBody |-> TRUE, body |-> payload]
Envelopes ==
    {Envelope(c, p) : c \in EnvelopeCodes, p \in Payloads}
    \cup {[Envelope(c, NoPayload) EXCEPT !.hasBody = FALSE] : c \in EnvelopeCodes}
    \cup {[Envelope(NoneCode, p) EXCEPT !.hasStatusCode = FALSE] : p \in Payloads}
Bodies == {NotJsonBody, ArrayBody} \cup Envelopes

\* Outcomes of _request.
Success == "Success"
AuthenticationFailure == "SwitchBotAuthenticationError"
DeviceOffline == "SwitchBotDeviceOfflineError"
ConnectionFailure == "SwitchBotConnectionError"
Outcomes == {Success, AuthenticationFailure, DeviceOffline, ConnectionFailure}

\* The position of an operation.  pc: "idle" (not called yet), "request"
\* (suspended in session.request), "json" (suspended in response.json),
\* "done" (returned or raised).
IdleTask == [pc |-> "idle", op |-> "none", status |-> 0]

\* The record of an operation that ended: which call it was, what happened
\* in it, the outcome of _request and of the operation itself.
NoResult == [call |-> 0, op |-> "none", fault |-> "none", status |-> 0,
             body |-> NotJsonBody, jsonRead |-> FALSE, classified |-> FALSE,
             outcome |-> "none", result |-> NoPayload,
             opOutcome |-> "none", records |-> <<>>]

-----------------------------------------------------------------------------
(* Pure parts of the code *)

\* send_command, `isinstance(command, Commands)`: Commands is the class of
\* switchbot_api/__init__.py (line 72); that module imports nothing from
\* switchbot_api/commands.py.
IsCommandsMember(command) == command.base = "switchbot_api"

\* send_command, the "command" entry of the JSON body.
CommandField(command) == IF IsCommandsMember(command) THEN Str(command.value) ELSE command

\* No JSON body (json=None).
NoJson == [present |-> FALSE, commandType |-> "", command |-> NoCommand, parameter |-> ""]

\* The method, path and JSON body each operation passes to _request.
RequestOf(op) ==
    CASE op.name = "list_devices" ->
            [method |-> "GET", path |-> <<"devices">>, json |-> NoJson]
      [] op.name = "get_status" ->
            [method |-> "GET", path |-> <<"devices", op.args.device_id, "status">>,
             json |-> NoJson]
      [] op.name = "send_command" ->
            [method |-> "POST", path |-> <<"devices", op.args.device_id, "commands">>,
             json |-> [present |-> TRUE,
                       commandType |-> op.args.command_type,
                       command |-> CommandField(op.args.command),
                       parameter |-> op.args.parameters]]

\* json.dumps on the JSON body: an Enum member that is not a str cannot be
\* serialised.
Serialisable(json) == json.command.cls = "str"

\* NON_OBSERVED_REMOTE_TYPES
NON_OBSERVED_REMOTE_TYPES == {"Others"}

\* Device.__init__ / Remote.__init__: the record built from a list entry.
Device(entry) == [cls |-> "Device", device_id |-> entry.deviceId, device_type |-> entry.type]
Remote(entry) == [cls |-> "Remote", device_id |-> entry.deviceId, device_type |-> entry.type]

\* hmac.new(secret, msg, sha256).digest(), base64-encoded: a deterministic
\* function of key and message, modelled as the pair itself (collision-free).
HmacSha256(key, msg) == <<key, msg>>

\* make_headers: the six headers, signed over token, timestamp and nonce.
make_headers(token, secret, timestamp, nonce) ==
    [Authorization |-> token,
     ContentType   |-> "application/json",
     charset       |-> "utf8",
     t             |-> timestamp,
     sign          |-> HmacSha256(secret, <<token, timestamp, nonce>>),
     nonce         |-> nonce]

\* Variant: the header set of the first call is kept and sent again.
RequestHeadersReused(log, timestamp, nonce) ==
    IF log = <<>> THEN make_headers(Token, Secret, timestamp, nonce) ELSE log[1].headers

\* _request, `headers=self.make_headers(self.token, self.secret)`: the header
\* set a call carries is built in that call, from that call's uuid4() and
\* time.time(); nothing of an earlier call (log) is consulted.
RequestHeaders(log, timestamp, nonce) == make_headers(Token, Secret, timestamp, nonce)

\* Variant: a session is created for every request.
SessionNotReused(s) == TRUE

\* _request, `if not self.session`
SessionMissing(s) == s = NoSession

\* Variant: the ownership flag is not set when the client creates the session.
CloseFlagNotSet(create, flag) == flag

\* _request, `self._close_session = True` in the branch that creates the
\* session; the flag is untouched otherwise.
CloseFlag(create, flag) == IF create THEN TRUE ELSE flag

\* Variant: socket.gaierror is missing from the except clause.
IsCaughtNoGaierror(exc) ==
    exc \in {"ClientError", "ClientConnectorError", "ClientResponseError"}

\* _request, the except clause: (ClientError, ClientResponseError, socket.gaierror),
\* matched by isinstance, so subclasses of ClientError are caught as well.
IsCaught(exc) ==
    exc \in {"ClientError", "ClientConnectorError", "ClientResponseError", "gaierror"}

\* Variant: the authentication check tests for 401.
IsUnauthorized(status) == status = 401

\* _request, `if response.status == 403`
IsForbidden(status) == status = 403

\* _request, `if response.status >= 400`
IsHttpError(status) == status >= 400

\* Variant: a missing statusCode is taken as 100.
GetStatusCodeDefault100(body) == IF body.hasStatusCode THEN body.statusCode ELSE 100

\* body.get("statusCode")
GetStatusCode(body) == IF body.hasStatusCode THEN body.statusCode ELSE NoneCode

\* Variant: the payload is dropped.
BodyValueDropped(body) == NoPayload

\* _request, `return body["body"]`: the value under the key, or KeyError.
BodyValue(body) == body.body

\* The codes that mean the device (or its hub) is offline.
OfflineCodes == {161, 171}

\* Variant: only 161 is taken as offline.
IsOfflineCode161Only(code) == code = 161

\* _request, `case 161 | 171`
IsOfflineCode(code) == code \in OfflineCodes

\* _request, the match statement on body.get("statusCode").
MatchStatusCode(body) ==
    LET code == GetStatusCode(body) IN
    CASE code = 100 ->
            IF body.hasBody
            THEN [outcome |-> Success, result |-> BodyValue(body)]
            ELSE [outcome |-> "KeyError", result |-> NoPayload]
      [] IsOfflineCode(code) -> [outcome |-> DeviceOffline, result |-> NoPayload]
      [] OTHER -> [outcome |-> ConnectionFailure, result |-> NoPayload]

\* _request from `body = await response.json()` on, for a response whose
\* status is not 403: json() raises on a body that is not JSON
\* (JSONDecodeError, or ContentTypeError for a non-JSON content type), outside
\* the try block; then the status check; then the envelope, where .get on a
\* JSON value that is not an object raises AttributeError.
AfterJson(status, body) ==
    CASE ~body.json -> [outcome |-> "JSONDecodeError", result |-> NoPayload]
      [] IsHttpError(status) -> [outcome |-> ConnectionFailure, result |-> NoPayload]
      [] ~body.object -> [outcome |-> "AttributeError", result |-> NoPayload]
      [] OTHER -> MatchStatusCode(body)

\* Variant: the remotes are not filtered.
ListRecordsUnfiltered(payload) ==
    [k \in 1..Len(payload.deviceList) |-> Device(payload.deviceList[k])]
    \o [k \in 1..Len(payload.infraredRemoteList) |-> Remote(payload.infraredRemoteList[k])]

\* list_devices, after _request returned: the device records in order,
\* then the remotes whose remoteType is observed.  Iterating over a missing
\* list (body.get(...) is None) raises TypeError.
ListRecords(payload) ==
    LET devices == [k \in 1..Len(payload.deviceList) |-> Device(payload.deviceList[k])]
        observed == SelectSeq(payload.infraredRemoteList,
                              LAMBDA r : r.type \notin NON_OBSERVED_REMOTE_TYPES)
        remotes == [k \in 1..Len(observed) |-> Remote(observed[k])]
    IN  devices \o remotes

\* What the public operation does with the result of _request: an exception
\* propagates; get_status returns the payload; list_devices builds records;
\* send_command returns None.
OperationResult(op, r) ==
    IF r.outcome # Success THEN [opOutcome |-> r.outcome, records |-> <<>>]
    ELSE IF op = "list_devices"
         THEN IF r.result.hasDeviceList /\ r.result.hasRemoteList
              THEN [opOutcome |-> "Returned", records |-> ListRecords(r.result)]
              ELSE [opOutcome |-> "TypeError", records |-> <<>>]
         ELSE [opOutcome |-> "Returned", records |-> <<>>]

\* Variant: close() does not look at the ownership flag.
ShouldCloseAnySession(s, flag) == s # NoSession

\* close, `if self.session and self._close_session`
ShouldClose(s, flag) == s # NoSession /\ flag

-----------------------------------------------------------------------------
(* State *)

IssuedNonces == {calls[k].headers.nonce : k \in 1..Len(calls)}

\* SwitchBotAPI.__init__, with or without a session supplied by the caller.
Init ==
    /\ session \in {NoSession, SuppliedSession}
    /\ close_session = FALSE
    /\ nCreated = 0
    /\ closed = {}
    /\ closeInv = [s \in SessionIds |-> 0]
    /\ nClose = 0
    /\ tasks = [i \in TaskIds |-> IdleTask]
    /\ calls = <<>>
    /\ last = NoResult

\* An operation is called (the next task): _request up to its first
\* suspension.  Creates and adopts a session when there is none, builds the
\* headers and calls session.request(), which raises RuntimeError on a
\* closed session and TypeError on a JSON body it cannot serialise.
StartRequest(op, timestamp, nonce) ==
    /\ Len(calls) < MaxCalls
    /\ nonce \notin IssuedNonces
    /\ LET i == Len(calls) + 1
           create == SessionMissing(session)
           s == IF create THEN SuppliedSession + nCreated + 1 ELSE session
           headers == RequestHeaders(calls, timestamp, nonce)
           req == RequestOf(op)
           open == s \notin closed
           sent == open /\ Serialisable(req.json)
       IN  /\ session' = s
           /\ close_session' = CloseFlag(create, close_session)
           /\ nCreated' = (IF create THEN nCreated + 1 ELSE nCreated)
           /\ calls' = Append(calls, [sess |-> s, headers |-> headers, open |-> open,
                                      dispatched |-> sent, args |-> op.args,
                                      method |-> req.method, path |-> req.path,
                                      json |-> req.json])
           /\ tasks' = [tasks EXCEPT ![i] =
                 [pc |-> IF sent THEN "request" ELSE "done", op |-> op.name, status |-> 0]]
           /\ last' = IF sent THEN last
                      ELSE LET exc == IF open THEN "TypeError" ELSE "RuntimeError"
                           IN  [NoResult EXCEPT !.call = i, !.op = op.name,
                                                !.outcome = exc, !.opOutcome = exc]
    /\ UNCHANGED <<closed, closeInv, nClose>>

\* session.request() raises exc: the except clause of _request.
TransportFault(i, exc) ==
    /\ tasks[i].pc = "request"
    /\ LET out == IF IsCaught(exc) THEN ConnectionFailure ELSE exc
       IN  /\ tasks' = [tasks EXCEPT ![i] = [@ EXCEPT !.pc = "done"]]
           /\ last' = [NoResult EXCEPT !.call = i, !.op = tasks[i].op, !.fault = exc,
                                       !.outcome = out, !.opOutcome = out]
    /\ UNCHANGED <<session, close_session, nCreated, closed, closeInv, nClose, calls>>

\* session.request() yields a response: the 403 check, then the
\* suspension in response.json().
ResponseArrives(i, status) ==
    /\ tasks[i].pc = "request"
    /\ IF IsForbidden(status)
       THEN /\ tasks' = [tasks EXCEPT ![i] = [@ EXCEPT !.pc = "done", !.status = status]]
            /\ last' = [NoResult EXCEPT !.call = i, !.op = tasks[i].op,
                                        !.status = status, !.classified = TRUE,
                                        !.outcome = AuthenticationFailure,
                                        !.opOutcome = AuthenticationFailure]
       ELSE /\ tasks' = [tasks EXCEPT ![i] = [@ EXCEPT !.pc = "json", !.status = status]]
            /\ last' = last
    /\ UNCHANGED <<session, close_session, nCreated, closed, closeInv, nClose, calls>>

\* response.json() completes on a response whose body is `body`: the rest of
\* _request and of the operation that called it.
JsonRead(i, body) ==
    /\ tasks[i].pc = "json"
    /\ LET r == AfterJson(tasks[i].status, body)
           o == OperationResult(tasks[i].op, r)
       IN  /\ tasks' = [tasks EXCEPT ![i] = [@ EXCEPT !.pc = "done"]]
           /\ last' = [call |-> i, op |-> tasks[i].op, fault |-> "none",
                       status |-> tasks[i].status, body |-> body,
                       jsonRead |-> TRUE, classified |-> TRUE,
                       outcome |-> r.outcome, result |-> r.result,
                       opOutcome |-> o.opOutcome, records |-> o.records]
    /\ UNCHANGED <<session, close_session, nCreated, closed, closeInv, nClose, calls>>

\* The body of close(): session.close() when the client holds a session
\* and owns it.  Neither self.session nor self._close_session is changed.
DoClose ==
    /\ nClose < MaxCloses
    /\ nClose' = nClose + 1
    /\ IF ShouldClose(session, close_session)
       THEN /\ closed' = closed \cup {session}
            /\ closeInv' = [closeInv EXCEPT ![session] = @ + 1]
       ELSE UNCHANGED <<closed, closeInv>>
    /\ UNCHANGED <<session, close_session, nCreated, tasks, calls, last>>

\* SwitchBotAPI.close
Close == DoClose

\* SwitchBotAPI.__aexit__: `await self.close()`
AExit == DoClose

\* Operations suspended in session.request() or response.json().
InFlight == {i \in TaskIds : tasks[i].pc \in {"request", "json"}}

\* The steps of the client when its caller calls the operations ops and
\* keeps at most par of them in flight, and the environment draws clock
\* readings from times, uuid4 values from nonces, transport faults from
\* faults, response statuses from statuses and response bodies from bodies.
NextOver(ops, par, times, nonces, faults, statuses, bodies) ==
    \/ /\ Cardinality(InFlight) < par
       /\ \E op \in ops, t \in times, n \in nonces : StartRequest(op, t, n)
    \/ \E i \in TaskIds, exc \in faults : TransportFault(i, exc)
    \/ \E i \in TaskIds, status \in statuses : ResponseArrives(i, status)
    \/ \E i \in TaskIds, body \in bodies : JsonRead(i, body)
    \/ Close
    \/ AExit

\* Clock readings: two calls may or may not fall in the same millisecond.
Times == {0, 1}
\* uuid4 values.
Nonces == 1..(MaxCalls + 1)
\* One clock reading and one fresh uuid4 value per call, where the headers
\* are not what is examined.
OneTime == {0}
NextNonce == {Len(calls) + 1}

\* The client under concurrent use, with responses that make an operation
\* succeed, raise a SwitchBot error, or raise another error.
Next ==
    NextOver(Ops, MaxCalls, OneTime, NextNonce, {"ClientError", "TimeoutError"}, {200, 403},
             {Envelope(100, DevicesPayload), Envelope(161, StatusPayload), NotJsonBody})

Spec == Init /\ [][Next]_vars

\* The client used one call at a time, over every transport fault, status
\* and response body.
NextClassify ==
    NextOver(Ops, 1, OneTime, NextNonce, TransportFaults, HttpStatuses, Bodies)

SpecClassify == Init /\ [][NextClassify]_vars

\* The client under concurrent use, over every clock reading and uuid4 value.
NextSign ==
    NextOver({GetStatus}, MaxCalls, Times, Nonces, {"ClientError"}, {200},
             {Envelope(100, DevicesPayload)})

SpecSign == Init /\ [][NextSign]_vars

\* The client used one call at a time for send_command, over strings and
\* members of the command enumerations of both modules.
NextCommand ==
    NextOver(SendCommands, 1, OneTime, NextNonce, {"ClientError"}, {200, 403},
             {Envelope(100, StatusPayload), Envelope(161, StatusPayload)})

SpecCommand == Init /\ [][NextCommand]_vars

\* The client used one call at a time for list_devices, over the
\* device-list payloads.
NextDevices ==
    NextOver({ListDevices}, 1, OneTime, NextNonce, {"ClientError"}, {200, 403},
             {Envelope(100, p) : p \in DevicePayloads} \cup {Envelope(161, StatusPayload)})

SpecDevices == Init /\ [][NextDevices]_vars

-----------------------------------------------------------------------------
(* Properties *)

\* An operation has ended and `last` describes it.
Ended == last.call > 0

\* The response of the last operation was a JSON object read under a status below 400.
EnvelopeRead == Ended /\ last.jsonRead /\ last.status < 400 /\ last.body.json /\ last.body.object

\* The client was constructed with the caller's session.
Supplied == session = SuppliedSession

\* The client created its session.
Created == nCreated >= 1

\* C1: a client constructed with a caller-supplied session never closes that
\* session, whatever requests, close() calls and context-manager exits happen.
C1_SuppliedSessionNeverClosed ==
    Supplied => /\ closeInv[SuppliedSession] = 0
                /\ SuppliedSession \notin closed
                /\ ~close_session

\* C1 witness: on a supplied session a request has raised, another call was made,
\* and close() and __aexit__ have both run.
C1_Witness ==
    /\ Supplied /\ nClose >= 2 /\ Len(calls) >= 2
    /\ Ended /\ last.opOutcome # "Returned"

\* C2: the session the client created stays open across requests (no step
\* other than close()/__aexit__ closes a session) and is closed when a
\* close()/__aexit__ made after its creation has completed.
C2_CreatedSessionOpenUntilClose ==
    [][ /\ (nClose' = nClose => closed' = closed)
        /\ (nClose' # nClose /\ Created => session \in closed') ]_vars

\* C2 witness: the created session served two requests, the last of which
\* raised, and is closed after close().
C2_Witness ==
    /\ Created /\ session \in closed
    /\ Len(calls) >= 2 /\ \A k \in 1..Len(calls) : calls[k].dispatched /\ calls[k].sess = session
    /\ Ended /\ last.call = 2 /\ last.opOutcome \notin {"Returned", "none"}

\* C3: the close of a session the client owns is invoked exactly one time over
\* any sequence of close() calls and context-manager exits: once shutdown has
\* closed the session, the number of invocations is one.
C3_ClosedExactlyOnce ==
    \A s \in SessionIds : s \in closed => closeInv[s] = 1

\* C4: a response with status 403 ends the request with
\* AuthenticationFailure, and the body is not read.
C4_ForbiddenIsAuthenticationFailure ==
    (Ended /\ last.status = 403) =>
        /\ last.outcome = AuthenticationFailure
        /\ last.opOutcome = AuthenticationFailure
        /\ ~last.jsonRead

\* C4 witness: a request ended on a 403 response.
C4_Witness == Ended /\ last.status = 403 /\ last.classified

\* C5: a response with a status >= 400 other than 403 ends the request with
\* ConnectionFailure, for every response body.
C5_HttpErrorIsConnectionFailure ==
    (Ended /\ last.status >= 400 /\ last.status # 403) =>
        last.outcome = ConnectionFailure

\* C6: under a status below 400, an envelope with statusCode 100 and a body
\* gives Success carrying exactly that body value.
C6_SuccessCarriesBody ==
    (EnvelopeRead /\ GetStatusCode(last.body) = 100 /\ last.body.hasBody) =>
        /\ last.outcome = Success
        /\ last.result = last.body.body

\* C6 witness: a request returned the device-list payload of its envelope.
C6_Witness ==
    /\ EnvelopeRead /\ GetStatusCode(last.body) = 100 /\ last.body.hasBody
    /\ last.body.body = DevicesPayload /\ last.outcome = Success

\* C7: under a status below 400, statusCode 161 and statusCode 171 both end
\* the request with DeviceOffline.
C7_OfflineCodes ==
    (EnvelopeRead /\ GetStatusCode(last.body) \in {161, 171}) =>
        /\ last.outcome = DeviceOffline
        /\ last.opOutcome = DeviceOffline

\* C7 witness: a request ended on an envelope with statusCode 171.
C7_Witness == EnvelopeRead /\ GetStatusCode(last.body) = 171 /\ last.outcome = DeviceOffline

\* The connectivity errors of the HTTP layer: aiohttp's ClientError family
\* and the resolver's socket.gaierror.
ConnectivityErrors == {"ClientError", "ClientConnectorError", "ClientResponseError", "gaierror"}

C9_OutcomeIsOneOfFour == Ended => last.outcome \in Outcomes

\* C10: no two calls carry the same (timestamp, nonce) pair, the same
\* signature or the same header set.
C10_HeadersNeverReused ==
    \A j, k \in 1..Len(calls) :
        j # k => /\ <<calls[j].headers.t, calls[j].headers.nonce>>
                      # <<calls[k].headers.t, calls[k].headers.nonce>>
                 /\ calls[j].headers.sign # calls[k].headers.sign
                 /\ calls[j].headers # calls[k].headers

\* C10 witness: two calls signed in the same millisecond are in flight together.
C10_Witness ==
    /\ Len(calls) >= 2
    /\ calls[1].headers.t = calls[2].headers.t
    /\ calls[1].dispatched /\ calls[2].dispatched
    /\ tasks[1].pc = "request" /\ tasks[2].pc = "request"

\* The calls to session.request() made by send_command.
SendCalls == {k \in 1..Len(calls) : calls[k].json.present}

\* C11: send_command issues one POST to devices/{id}/commands whose JSON body
\* holds commandType, command and parameter, where command is the string
\* identifier of the command: the string passed, or the string value of the
\* enumeration member passed.
C11_CommandIsStringIdentifier ==
    \A k \in SendCalls :
        /\ calls[k].method = "POST"
        /\ calls[k].path = <<"devices", calls[k].args.device_id, "commands">>
        /\ calls[k].json.commandType = calls[k].args.command_type
        /\ calls[k].json.parameter = calls[k].args.parameters
        /\ calls[k].json.command = Str(calls[k].args.command.value)
        /\ calls[k].open => calls[k].dispatched

\* The entries of a remote list whose type is not "Others", in order.
RECURSIVE NotOthers(_)
NotOthers(remotes) ==
    IF remotes = <<>> THEN <<>>
    ELSE (IF Head(remotes).type = "Others" THEN <<>> ELSE <<Head(remotes)>>)
         \o NotOthers(Tail(remotes))

\* list_devices got a success payload that holds both lists.
DevicesListed ==
    /\ Ended /\ last.op = "list_devices" /\ last.outcome = Success
    /\ last.result.hasDeviceList /\ last.result.hasRemoteList

\* C12: list_devices returns one Device record per entry of deviceList, in
\* order, then one Remote record per entry of infraredRemoteList whose
\* remoteType is not "Others", in order; no remote of type "Others" is returned.
C12_DevicesThenObservedRemotes ==
    DevicesListed =>
        LET devices == last.result.deviceList
            remotes == NotOthers(last.result.infraredRemoteList)
            n == Len(devices)
        IN  /\ last.opOutcome = "Returned"
            /\ Len(last.records) = n + Len(remotes)
            /\ \A k \in 1..n :
                  last.records[k] = [cls |-> "Device", device_id |-> devices[k].deviceId,
                                     device_type |-> devices[k].type]
            /\ \A k \in 1..Len(remotes) :
                  last.records[n + k] = [cls |-> "Remote", device_id |-> remotes[k].deviceId,
                                         device_type |-> remotes[k].type]
            /\ \A k \in 1..Len(last.records) :
                  last.records[k].cls = "Remote" => last.records[k].device_type # "Others"

\* C12 witness: three devices (one of type "Others") and two of four remotes returned.
C12_Witness ==
    /\ DevicesListed /\ Len(last.result.deviceList) = 3
    /\ Len(last.result.infraredRemoteList) = 4 /\ Len(last.records) = 5

\* C13: under a status below 400, an envelope whose statusCode is none of
\* 100, 161 and 171, or that has no statusCode, ends the request with
\* ConnectionFailure, never with Success.
C13_OtherCodeIsConnectionFailure ==
    (EnvelopeRead /\ (~last.body.hasStatusCode \/ last.body.statusCode \notin {100, 161, 171})) =>
        /\ last.outcome = ConnectionFailure
        /\ last.opOutcome = ConnectionFailure
        /\ last.result = NoPayload

\* C13 witness: a request ended on an envelope that has a body and no statusCode.
C13_Witness ==
    /\ EnvelopeRead /\ ~last.body.hasStatusCode /\ last.body.hasBody
    /\ last.outcome = ConnectionFailure

\* C14: on a client constructed without a session, however the requests
\* interleave, one session is created at most; every request was made on it,
\* the client holds it and owns it, and close() closes no other session.
C14_OneSessionCreated ==
    ~Supplied =>
        /\ nCreated <= 1
        /\ (nCreated = 0 => session = NoSession /\ calls = <<>>)
        /\ (nCreated = 1 => session = SuppliedSession + 1 /\ close_session)
        /\ \A k \in 1..Len(calls) : calls[k].sess = session
        /\ closed \subseteq {session}
        /\ \A s \in SessionIds : closeInv[s] > 0 => s = session

\* C14 witness: two requests are in flight together on the created session.
C14_Witness ==
    /\ ~Supplied /\ nCreated = 1
    /\ tasks[1].pc \in {"request", "json"} /\ tasks[2].pc \in {"request", "json"}
    /\ calls[1].sess = calls[2].sess

\* C15: no request is made on a session the client has closed: every call to
\* session.request() is made on an open session.
C15_RequestsOnOpenSession ==
    \A k \in 1..Len(calls) : calls[k].open

====
